---- MODULE Spec2Model ----
\* Layout logic of the image-generation skill's templates:
\*   scripts/flowchart_template.py  (create_flowchart)
\*   scripts/mindmap_template.py    (radial_layout, create_mindmap)
\* Each call is modelled as a small sequential program: the input is drawn in
\* Init, and one action is taken per statement block / loop iteration.
\*
\* Numbers.  Python floats are modelled as exact rationals [n, d] in lowest
\* terms with d > 0, so that equal values are equal records.  Rounding of
\* IEEE doubles is not modelled.
\* Points.  Flowchart points are pairs <<x, y>> of rationals.  Mind-map branch
\* positions are kept in polar form about the canvas centre (radius, angle in
\* degrees) and child positions in the frame of their branch (distance along
\* the outward direction, offset along the perpendicular), because cos/sin
\* values are not rational.
EXTENDS Integers, Sequences, FiniteSets, TLC

\* ------------------------------------------------------------------ bounds
\* longest flow of plain (chained) steps
MaxSteps == 7
\* longest flow in which one step carries arbitrary successor/branch fields
MaxFocusSteps == 3
\* largest number of mind-map branches
MaxBranches == 6
\* largest number of children of the varied branch
MaxChildren == 6
\* longest item list of a linear flowchart
MaxItems == 4
\* largest count passed to tree_layout
MaxCount == 5

\* --------------------------------------------------------------- rationals
RECURSIVE GCD(_, _)
GCD(a, b) == IF b = 0 THEN a ELSE GCD(b, a % b)

Abs(k) == IF k < 0 THEN -k ELSE k

\* the rational n/d in lowest terms, d # 0
R(n, d) ==
    LET g == GCD(Abs(n), Abs(d))
        s == IF d < 0 THEN -1 ELSE 1
    IN  [n |-> (s * n) \div g, d |-> (s * d) \div g]

RInt(k) == R(k, 1)
RAdd(a, b) == R(a.n * b.d + b.n * a.d, a.d * b.d)
RSub(a, b) == R(a.n * b.d - b.n * a.d, a.d * b.d)
RMul(a, b) == R(a.n * b.n, a.d * b.d)
RDiv(a, b) == R(a.n * b.d, a.d * b.n)
RNeg(a) == R(-a.n, a.d)
RLt(a, b) == a.n * b.d < b.n * a.d
RMax(a, b) == IF RLt(a, b) THEN b ELSE a
RMin(a, b) == IF RLt(b, a) THEN b ELSE a

\* ------------------------------------------------------- optional values
\* Python None / an absent dict key is <<>>, the integer k is <<k>>
None == <<>>
Some(k) == <<k>>
\* step.get('branch') when the key is absent
NoBranch == "<absent>"

\* ---------------------------------------------------------------- state
VARIABLES
    fn,                 \* the function being executed
    pc,                 \* position in it; "done" after savefig, "error" after a raise
    err,                \* name of the exception raised, "" if none
    i,                  \* loop index of the running for-loop (0-based)
    steps,              \* create_flowchart: the steps argument
    canvas,             \* the layout locals (height, width, y_spacing, ...)
    nodes,              \* create_flowchart: the nodes list of anchor dicts
    arrows,             \* create_flowchart: the arrows drawn by draw_arrow
    data,               \* create_mindmap: data['branches']
    branch_positions,   \* create_mindmap: result of radial_layout
    mnodes,             \* create_mindmap: the boxes drawn by draw_node
    connectors,         \* create_mindmap: the lines drawn by draw_connector
    items,              \* create_linear_flowchart: the items argument
    tree                \* tree_layout: its arguments and locals

vars == <<fn, pc, err, i, steps, canvas, nodes, arrows,
          data, branch_positions, mnodes, connectors, items, tree>>

flowVars == <<steps, canvas, nodes, arrows>>
mindVars == <<data, branch_positions, mnodes, connectors>>

\* ============================================================ flowchart
\* anchor dict returned by every draw_* shape function
Anchors(x, y, halfW, halfH) ==
    [center |-> <<x, y>>,
     top    |-> <<x, RAdd(y, halfH)>>,
     bottom |-> <<x, RSub(y, halfH)>>,
     left   |-> <<RSub(x, halfW), y>>,
     right  |-> <<RAdd(x, halfW), y>>]

draw_oval(x, y) == Anchors(x, y, RDiv(R(5, 2), RInt(2)), RDiv(RInt(1), RInt(2)))
draw_rect(x, y) == Anchors(x, y, RDiv(RInt(3), RInt(2)), RDiv(R(6, 5), RInt(2)))
draw_diamond(x, y) ==
    LET half == RDiv(R(9, 5), RInt(2)) IN Anchors(x, y, half, half)
draw_parallelogram(x, y) ==
    Anchors(x, y, RDiv(RInt(3), RInt(2)), RDiv(RInt(1), RInt(2)))

\* the if/elif chain choosing the shape of a step
DrawShape(type, x, y) ==
    IF type \in {"start", "end"} THEN draw_oval(x, y)
    ELSE IF type = "process" THEN draw_rect(x, y)
    ELSE IF type = "decision" THEN draw_diamond(x, y)
    ELSE IF type = "io" THEN draw_parallelogram(x, y)
    ELSE draw_rect(x, y)

\* canvas height for n_steps steps: max(14, n_steps * 2.5)
FlowHeightTwoPerStep(n) == RMax(RInt(14), RMul(RInt(n), RInt(2)))
FlowHeight(n) == RMax(RInt(14), RMul(RInt(n), R(5, 2)))

\* y_spacing = (height - 2) / (n_steps + 1)
YSpacingOffByOne(height, n) == RDiv(RSub(height, RInt(2)), RInt(n + 2))
YSpacing(height, n) == RDiv(RSub(height, RInt(2)), RInt(n + 1))

\* the layout locals computed before the loops
FlowCanvas(n) ==
    LET height == FlowHeight(n)
        width == RInt(10)
    IN  [height |-> height, width |-> width,
         y_spacing |-> YSpacing(height, n),
         x_center |-> RDiv(width, RInt(2))]

\* y = height - 1 - (i + 1) * y_spacing
StepY(cv, k) ==
    RSub(RSub(cv.height, RInt(1)), RMul(RInt(k + 1), cv.y_spacing))

\* x = x_center, moved by 2 for branch 'yes' / 'no'
StepXLeftRight(cv, step) ==
    IF step.branch = "left" THEN RSub(cv.x_center, RInt(2))
    ELSE IF step.branch = "right" THEN RAdd(cv.x_center, RInt(2))
    ELSE cv.x_center
StepX(cv, step) ==
    IF step.branch = "yes" THEN RSub(cv.x_center, RInt(2))
    ELSE IF step.branch = "no" THEN RAdd(cv.x_center, RInt(2))
    ELSE cv.x_center

\* draw_arrow(ax, start, end, label, curved); `by` records the iteration of
\* the connection loop that drew it (bookkeeping, not kept by the code)
Arrow(start, end, label, curved, by) ==
    [start |-> start, end |-> end, label |-> label, curved |-> curved, by |-> by]

\* the guard `idx is not None and idx < len(nodes)`
Passes(idx, n) == idx # None /\ idx[1] < n
\* nodes[idx] raises IndexError: Python accepts -n .. n-1
Raises(idx, n) == idx[1] < -n
\* nodes[idx] for an accepted idx (negative indices count from the end)
PyIndex(seq, k) == IF k >= 0 THEN seq[k + 1] ELSE seq[Len(seq) + k + 1]

\* lines 175-181: the Yes/No arrows of step k (0-based), in order, and
\* whether indexing nodes raised (a raise in the Yes part skips the No part)
DecisionArrows(ss, ns, k) ==
    LET step == ss[k + 1]
        n == Len(ns)
        me == ns[k + 1]
        yGo == Passes(step.yes_to, n)
        yErr == yGo /\ Raises(step.yes_to, n)
        nGo == ~yErr /\ Passes(step.no_to, n)
        nErr == nGo /\ Raises(step.no_to, n)
    IN  [arrows |->
            (IF yGo /\ ~yErr
             THEN <<Arrow(me.left, PyIndex(ns, step.yes_to[1]).top, "Yes", TRUE, k)>>
             ELSE <<>>)
            \o
            (IF nGo /\ ~nErr
             THEN <<Arrow(me.right, PyIndex(ns, step.no_to[1]).top, "No", TRUE, k)>>
             ELSE <<>>),
         raised |-> yErr \/ nErr]

\* lines 184-186: the arrow of step k to its `next`
NextArrows(ss, ns, k) ==
    LET step == ss[k + 1]
        n == Len(ns)
        me == ns[k + 1]
        go == Passes(step.next, n)
        bad == go /\ Raises(step.next, n)
    IN  [arrows |-> IF go /\ ~bad
                    THEN <<Arrow(me.bottom, PyIndex(ns, step.next[1]).top, "", FALSE, k)>>
                    ELSE <<>>,
         raised |-> bad]

\* two statement blocks run one after the other
Both(first, second) ==
    IF first.raised THEN first
    ELSE [arrows |-> first.arrows \o second.arrows, raised |-> second.raised]

\* one iteration of the connection loop for step k (0-based)
ConnectStepFallsThrough(ss, ns, k) ==
    IF ss[k + 1].type = "decision"
    THEN Both(DecisionArrows(ss, ns, k), NextArrows(ss, ns, k))
    ELSE NextArrows(ss, ns, k)
ConnectStepIgnoresKind(ss, ns, k) ==
    IF ss[k + 1].type = "decision"
    THEN DecisionArrows(ss, ns, k)
    ELSE Both(DecisionArrows(ss, ns, k), NextArrows(ss, ns, k))
ConnectStep(ss, ns, k) ==
    IF ss[k + 1].type = "decision"
    THEN DecisionArrows(ss, ns, k)
    ELSE NextArrows(ss, ns, k)

\* ------------------------------------------------------ flowchart inputs
Kinds == {"start", "end", "process", "decision", "io", "custom"}
KindCycle == <<"start", "io", "process", "decision", "custom", "end">>
BranchValues == {NoBranch, "yes", "no", "left", "right"}

MkStep(type, next, yes_to, no_to, branch) ==
    [type |-> type, next |-> next, yes_to |-> yes_to, no_to |-> no_to,
     branch |-> branch]

\* successor values tried on the varied step of an n-step flow: absent, the
\* ends of the valid range 0..n-1, and both sides outside it
Idx(n) == {None} \cup {Some(k) : k \in {-(n + 1), -1, 0, n - 1, n}}

\* step j (0-based) of a chained n-step flow whose kinds follow KindCycle from
\* offset p: a decision goes on to j+1 and loops back to 0, the others go on
\* to j+1; the last step has no successor
PlainStep(n, p, j) ==
    LET type == KindCycle[((j + p) % Len(KindCycle)) + 1]
        succ == IF j + 1 < n THEN Some(j + 1) ELSE None
    IN  IF type = "decision"
        THEN MkStep(type, None, succ, Some(0), NoBranch)
        ELSE MkStep(type, succ, None, None, NoBranch)

PlainFlow(n, p) == [j \in 1..n |-> PlainStep(n, p, j - 1)]

PlainFlows == {PlainFlow(n, p) : n \in 0..MaxSteps, p \in 0..(Len(KindCycle) - 1)}

RichSteps(n) ==
    {MkStep(t, nx, y, no, NoBranch) :
        t \in Kinds, nx \in Idx(n), y \in Idx(n), no \in Idx(n)}
    \cup
    {MkStep(t, None, None, None, b) : t \in Kinds, b \in BranchValues}

FocusFlows ==
    UNION {{[PlainFlow(n, 0) EXCEPT ![f] = r] : f \in 1..n, r \in RichSteps(n)} :
              n \in 1..MaxFocusSteps}

\* chained n-step flows whose kinds alternate between a and b, so that every
\* pair of kinds meets as vertical neighbours at every length
KindStep(type, n, j) ==
    LET succ == IF j + 1 < n THEN Some(j + 1) ELSE None
    IN  IF type = "decision"
        THEN MkStep(type, None, succ, Some(0), NoBranch)
        ELSE MkStep(type, succ, None, None, NoBranch)

AlternatingFlows ==
    {[j \in 1..n |-> KindStep(IF j % 2 = 1 THEN a ELSE b, n, j - 1)] :
        n \in 0..MaxSteps, a \in Kinds, b \in Kinds}

FlowInputs == PlainFlows \cup FocusFlows \cup AlternatingFlows

NoCanvas == [height |-> RInt(0), width |-> RInt(0)]
\* tree_layout not called
NoTree == [count |-> 0]

InitFlow ==
    /\ fn = "create_flowchart"
    /\ pc = "fc_layout"
    /\ steps \in FlowInputs
    /\ data = <<>>
    /\ items = <<>>
    /\ tree = NoTree

\* lines 133-146: layout locals, nodes = []
FcLayout ==
    /\ pc = "fc_layout"
    /\ canvas' = FlowCanvas(Len(steps))
    /\ nodes' = <<>>
    /\ i' = 0
    /\ pc' = IF Len(steps) = 0 THEN "fc_connect" ELSE "fc_nodes"
    /\ UNCHANGED <<fn, err, steps, arrows, mindVars, items, tree>>

\* lines 147-169: one iteration of the node loop
FcDrawNode ==
    /\ pc = "fc_nodes"
    /\ i < Len(steps)
    /\ LET step == steps[i + 1]
           y == StepY(canvas, i)
           x == StepX(canvas, step)
       IN  nodes' = Append(nodes, DrawShape(step.type, x, y))
    /\ IF i + 1 = Len(steps)
       THEN pc' = "fc_connect" /\ i' = 0
       ELSE pc' = pc /\ i' = i + 1
    /\ UNCHANGED <<fn, err, steps, canvas, arrows, mindVars, items, tree>>

\* lines 172-186: one iteration of the connection loop
FcConnect ==
    /\ pc = "fc_connect"
    /\ i < Len(steps)
    /\ LET r == ConnectStep(steps, nodes, i)
       IN  /\ arrows' = arrows \o r.arrows
           /\ IF r.raised
              THEN pc' = "error" /\ err' = "IndexError" /\ i' = i
              ELSE pc' = pc /\ err' = err /\ i' = i + 1
    /\ UNCHANGED <<fn, steps, canvas, nodes, mindVars, items, tree>>

\* lines 188-192: savefig and return
FcSave ==
    /\ pc = "fc_connect"
    /\ i = Len(steps)
    /\ pc' = "done"
    /\ UNCHANGED <<fn, err, i, flowVars, mindVars, items, tree>>

\* ============================================================== mind map
\* the COLORS palette and the color_keys list
COLORS ==
    [center |-> "#E74C3C", branch1 |-> "#3498DB", branch2 |-> "#2ECC71",
     branch3 |-> "#F39C12", branch4 |-> "#9B59B6", branch5 |-> "#1ABC9C",
     connector |-> "#7F8C8D", background |-> "#FFFFFF"]
color_keys == <<"branch1", "branch2", "branch3", "branch4", "branch5">>
\* branch.get('color', ...) when the key is absent
NoColor == "<absent>"

\* the point  c + (radius + along) * u(angle) + across * u_perp(angle), where
\* u(a) = (cos a, sin a) and u_perp(a) = (-sin a, cos a), a in degrees
MPoint(c, radius, angle, along, across) ==
    [cx |-> c[1], cy |-> c[2], radius |-> radius, angle |-> angle,
     along |-> along, across |-> across]

CenterPoint(c) == MPoint(c, RInt(0), RInt(0), RInt(0), RInt(0))

\* radial_layout: angle of position k (0-based), start_angle + k * (360 / count)
RadialAngleClockwise(count, k) ==
    RSub(RInt(90), RMul(RInt(k), RDiv(RInt(360), RInt(count))))
RadialAngle(count, k) ==
    LET angle_step == RDiv(RInt(360), RInt(count))
    IN  RAdd(RInt(90), RMul(RInt(k), angle_step))

\* radial_layout(center, radius, count) for count # 0
radial_layout(c, radius, count) ==
    [k \in 1..count |-> MPoint(c, radius, RadialAngle(count, k - 1), RInt(0), RInt(0))]

\* canvas locals of create_mindmap
MaxOf(S) == CHOOSE m \in S : \A k \in S : k <= m
MindCanvasWideRadius(branches) ==
    LET n_branches == Len(branches)
        max_children ==
            IF n_branches # 0
            THEN MaxOf({Len(branches[k].children) : k \in 1..n_branches})
            ELSE 0
        width == RMax(RInt(16), RInt(n_branches * 3))
        height == RMax(RInt(12), RAdd(RInt(4), RMul(RInt(max_children), R(3, 2))))
    IN  [width |-> width, height |-> height,
         center |-> <<RDiv(width, RInt(2)), RDiv(height, RInt(2))>>,
         branch_radius |-> RDiv(RMax(width, height), RInt(3))]
MindCanvas(branches) ==
    LET n_branches == Len(branches)
        max_children ==
            IF n_branches # 0
            THEN MaxOf({Len(branches[k].children) : k \in 1..n_branches})
            ELSE 0
        width == RMax(RInt(16), RInt(n_branches * 3))
        height == RMax(RInt(12), RAdd(RInt(4), RMul(RInt(max_children), R(3, 2))))
    IN  [width |-> width, height |-> height,
         center |-> <<RDiv(width, RInt(2)), RDiv(height, RInt(2))>>,
         branch_radius |-> RDiv(RMin(width, height), RInt(3))]

\* color of branch k (0-based)
BranchColorOffByOne(branch, k) ==
    IF branch.color # NoColor THEN branch.color
    ELSE COLORS[color_keys[((k + 1) % Len(color_keys)) + 1]]
BranchColor(branch, k) ==
    IF branch.color # NoColor THEN branch.color
    ELSE COLORS[color_keys[(k % Len(color_keys)) + 1]]

\* offset = (j - (len(children) - 1) / 2) * spread, spread = 1.2
ChildOffsetFromZero(m, j) == RMul(RInt(j), R(6, 5))
ChildOffset(m, j) ==
    RMul(RSub(RInt(j), RDiv(RInt(m - 1), RInt(2))), R(6, 5))

\* child_pos: child_base = pos + direction * 2, then perp * offset
ChildPos(pos, m, j) ==
    [pos EXCEPT !.along = RInt(2), !.across = ChildOffset(m, j)]

\* draw_node(ax, x, y, text, color, width, height)
Node(pos, color, width, height) ==
    [pos |-> pos, color |-> color, width |-> width, height |-> height]

\* draw_connector(ax, start, end, color, linewidth)
Connector(start, end, color, linewidth) ==
    [start |-> start, end |-> end, color |-> color, linewidth |-> linewidth]

\* one iteration of the branch loop: what it draws, in order
BranchConnectorsChildToCenter(cv, branch, pos, k) ==
    LET color == BranchColor(branch, k)
        m == Len(branch.children)
    IN  <<Connector(CenterPoint(cv.center), pos, color, RInt(3))>>
        \o [j \in 1..m |->
               Connector(CenterPoint(cv.center), ChildPos(pos, m, j - 1), color, R(3, 2))]
BranchConnectors(cv, branch, pos, k) ==
    LET color == BranchColor(branch, k)
        m == Len(branch.children)
    IN  <<Connector(CenterPoint(cv.center), pos, color, RInt(3))>>
        \o [j \in 1..m |->
               Connector(pos, ChildPos(pos, m, j - 1), color, R(3, 2))]

BranchNodes(cv, branch, pos, k) ==
    LET color == BranchColor(branch, k)
        m == Len(branch.children)
    IN  <<Node(pos, color, R(14, 5), R(4, 5))>>
        \o [j \in 1..m |->
               Node(ChildPos(pos, m, j - 1), color, R(11, 5), R(3, 5))]

\* ------------------------------------------------------- mind-map inputs
ExplicitColors == <<"#E74C3C", "#3498DB">>

\* which branches declare a color: none, all, the even ones, the odd ones
Declares(cp, j) ==
    \/ cp = 1
    \/ cp = 2 /\ j % 2 = 0
    \/ cp = 3 /\ j % 2 = 1

Children(m) == [k \in 1..m |-> "child"]

\* n branches; branch f (1-based) has m children, branch j otherwise j mod 3
MindInput(n, cp, f, m) ==
    [j \in 1..n |->
        [name |-> "branch",
         color |-> IF Declares(cp, j - 1) THEN ExplicitColors[((j - 1) % 2) + 1]
                   ELSE NoColor,
         children |-> Children(IF j = f THEN m ELSE (j - 1) % 3)]]

MindInputs ==
    {<<>>} \cup
    {MindInput(n, cp, f, m) :
        n \in 1..MaxBranches, cp \in 0..3, f \in 1..MaxBranches, m \in 0..MaxChildren}

InitMind ==
    /\ fn = "create_mindmap"
    /\ pc = "mm_layout"
    /\ data \in MindInputs
    /\ steps = <<>>
    /\ items = <<>>
    /\ tree = NoTree

\* lines 121-136: canvas locals and the center node
MmLayout ==
    /\ pc = "mm_layout"
    /\ canvas' = MindCanvas(data)
    /\ mnodes' = <<Node(CenterPoint(MindCanvas(data).center), COLORS["center"],
                        R(7, 2), R(6, 5))>>
    /\ pc' = "mm_radial"
    /\ UNCHANGED <<fn, err, i, steps, nodes, arrows, data, branch_positions,
                   connectors, items, tree>>

\* lines 139-140 with radial_layout (71-80): 360 / count raises for count = 0
MmRadialLayout ==
    /\ pc = "mm_radial"
    /\ IF Len(data) = 0
       THEN /\ pc' = "error"
            /\ err' = "ZeroDivisionError"
            /\ UNCHANGED <<i, branch_positions>>
       ELSE /\ branch_positions' =
                   radial_layout(canvas.center, canvas.branch_radius, Len(data))
            /\ i' = 0
            /\ pc' = "mm_branches"
            /\ err' = err
    /\ UNCHANGED <<fn, steps, canvas, nodes, arrows, data, mnodes, connectors,
                   items, tree>>

\* lines 144-173: one iteration of the branch loop (children included)
MmDrawBranch ==
    /\ pc = "mm_branches"
    /\ i < Len(data)
    /\ LET branch == data[i + 1]
           pos == branch_positions[i + 1]
       IN  /\ connectors' = connectors \o BranchConnectors(canvas, branch, pos, i)
           /\ mnodes' = mnodes \o BranchNodes(canvas, branch, pos, i)
    /\ i' = i + 1
    /\ UNCHANGED <<fn, pc, err, steps, canvas, nodes, arrows, data,
                   branch_positions, items, tree>>

\* lines 175-183: header text, savefig and return
MmSave ==
    /\ pc = "mm_branches"
    /\ i = Len(data)
    /\ pc' = "done"
    /\ UNCHANGED <<fn, err, i, flowVars, mindVars, items, tree>>

\* ===================================================== linear flowchart
\* the if/elif chain of create_linear_flowchart choosing the shape
LinearShape(type, x, y) ==
    IF type \in {"start", "end"} THEN draw_oval(x, y)
    ELSE IF type = "decision" THEN draw_diamond(x, y)
    ELSE IF type = "io" THEN draw_parallelogram(x, y)
    ELSE draw_rect(x, y)

\* height = len(items) * 2 + 2
LinearHeight(n) == RInt(n * 2 + 2)

\* y = height - 2 - i * 2
LinearYFromOne(height, k) == RSub(RSub(height, RInt(2)), RInt((k + 1) * 2))
LinearY(height, k) == RSub(RSub(height, RInt(2)), RInt(k * 2))

\* `if i > 0: draw_arrow(nodes[i-1]['bottom'], node['top'])`, ns being the
\* nodes list after the append
LinearConnect(ns, k) ==
    IF k > 0
    THEN <<Arrow(ns[k].bottom, ns[k + 1].top, "", FALSE, k)>>
    ELSE <<>>

\* an item is the tuple (type, text)
Item(type) == <<type, "text">>

RECURSIVE ItemLists(_)
ItemLists(n) ==
    IF n = 0 THEN {<<>>}
    ELSE {Append(l, Item(t)) : l \in ItemLists(n - 1), t \in Kinds}

LinearInputs == UNION {ItemLists(n) : n \in 0..MaxItems}

InitLinear ==
    /\ fn = "create_linear_flowchart"
    /\ pc = "lf_layout"
    /\ items \in LinearInputs
    /\ steps = <<>>
    /\ data = <<>>
    /\ tree = NoTree

\* lines 204-216: canvas, title, nodes = []
LfLayout ==
    /\ pc = "lf_layout"
    /\ canvas' = [height |-> LinearHeight(Len(items)), width |-> RInt(8)]
    /\ nodes' = <<>>
    /\ i' = 0
    /\ pc' = "lf_items"
    /\ UNCHANGED <<fn, err, steps, arrows, mindVars, items, tree>>

\* lines 217-234: one iteration of the item loop (node, then arrow from the
\* previous node)
LfDrawItem ==
    /\ pc = "lf_items"
    /\ i < Len(items)
    /\ LET node_type == items[i + 1][1]
           y == LinearY(canvas.height, i)
           x == RInt(4)
           ns == Append(nodes, LinearShape(node_type, x, y))
       IN  /\ nodes' = ns
           /\ arrows' = arrows \o LinearConnect(ns, i)
    /\ i' = i + 1
    /\ UNCHANGED <<fn, pc, err, steps, canvas, mindVars, items, tree>>

\* lines 236-238: savefig and return
LfSave ==
    /\ pc = "lf_items"
    /\ i = Len(items)
    /\ pc' = "done"
    /\ UNCHANGED <<fn, err, i, flowVars, mindVars, items, tree>>

\* ========================================================== tree layout
\* start_x = parent_pos[0] - spread * (count - 1) / 2
TreeStartXOffByOne(px, spread, count) ==
    RSub(px, RDiv(RMul(spread, RInt(count)), RInt(2)))
TreeStartX(px, spread, count) ==
    RSub(px, RDiv(RMul(spread, RInt(count - 1)), RInt(2)))

\* position k (0-based) of the loop: (start_x + i * spread, parent y + offset_y)
TreePos(t, k) ==
    <<RAdd(t.start_x, RMul(RInt(k), t.spread)), RAdd(t.parent_pos[2], t.offset_y)>>

\* the arguments: spread and offset_y take their defaults 2.5 and -2 or
\* another value
TreeInputs ==
    {[parent_pos |-> pp, count |-> c, spread |-> sp, offset_y |-> oy,
      start_x |-> RInt(0), positions |-> <<>>] :
        pp \in {<<RInt(0), RInt(0)>>, <<RInt(8), RInt(6)>>, <<R(5, 2), RInt(-1)>>},
        c \in 0..MaxCount,
        sp \in {R(5, 2), RInt(1)},
        oy \in {RInt(-2), R(3, 2)}}

InitTree ==
    /\ fn = "tree_layout"
    /\ pc = "tl_begin"
    /\ tree \in TreeInputs
    /\ steps = <<>>
    /\ data = <<>>
    /\ items = <<>>

\* lines 84-88: positions = [], then the count == 1 case or start_x
TlBranch ==
    /\ pc = "tl_begin"
    /\ IF tree.count = 1
       THEN /\ tree' = [tree EXCEPT !.positions =
                          <<<<tree.parent_pos[1],
                              RAdd(tree.parent_pos[2], tree.offset_y)>>>>]
            /\ pc' = "tl_return"
       ELSE /\ tree' = [tree EXCEPT !.start_x =
                          TreeStartX(tree.parent_pos[1], tree.spread, tree.count)]
            /\ pc' = "tl_loop"
    /\ i' = 0
    /\ UNCHANGED <<fn, err, flowVars, mindVars, items>>

\* lines 89-92: one iteration of the loop
TlAppend ==
    /\ pc = "tl_loop"
    /\ i < tree.count
    /\ tree' = [tree EXCEPT !.positions = Append(@, TreePos(tree, i))]
    /\ i' = i + 1
    /\ UNCHANGED <<fn, pc, err, flowVars, mindVars, items>>

\* line 93: return positions
TlReturn ==
    /\ \/ pc = "tl_return"
       \/ pc = "tl_loop" /\ i >= tree.count
    /\ pc' = "done"
    /\ UNCHANGED <<fn, err, i, flowVars, mindVars, items, tree>>

\* ======================================================== specification
Init ==
    /\ err = ""
    /\ i = 0
    /\ canvas = NoCanvas
    /\ nodes = <<>>
    /\ arrows = <<>>
    /\ branch_positions = <<>>
    /\ mnodes = <<>>
    /\ connectors = <<>>
    /\ (InitFlow \/ InitMind \/ InitLinear \/ InitTree)

Next ==
    \/ FcLayout
    \/ FcDrawNode
    \/ FcConnect
    \/ FcSave
    \/ MmLayout
    \/ MmRadialLayout
    \/ MmDrawBranch
    \/ MmSave
    \/ LfLayout
    \/ LfDrawItem
    \/ LfSave
    \/ TlBranch
    \/ TlAppend
    \/ TlReturn

Spec == Init /\ [][Next]_vars

\* =============================================================== claims
\* ---------------------------------------------------- flowchart helpers
Flow == fn = "create_flowchart"
N == Len(steps)
\* the node loop has finished
Placed == Flow /\ pc \in {"fc_connect", "done", "error"}
\* the connection loop has finished the iteration of step k (0-based)
Connected(k) == Placed /\ k < i
\* an index into the n steps
Valid(idx, n) == idx # None /\ idx[1] >= 0 /\ idx[1] < n
OutOfRange(idx, n) == idx # None /\ ~Valid(idx, n)
ArrowsBy(k) == SelectSeq(arrows, LAMBDA a : a.by = k)
YesArrow(k) ==
    Arrow(nodes[k + 1].left, nodes[steps[k + 1].yes_to[1] + 1].top, "Yes", TRUE, k)
NoArrow(k) ==
    Arrow(nodes[k + 1].right, nodes[steps[k + 1].no_to[1] + 1].top, "No", TRUE, k)
NextArrow(k) ==
    Arrow(nodes[k + 1].bottom, nodes[steps[k + 1].next[1] + 1].top, "", FALSE, k)
\* the edges step k is to produce: one per successor field that its kind
\* reads and that holds a valid index
EdgesOfValid(k) ==
    IF steps[k + 1].type = "decision"
    THEN (IF Valid(steps[k + 1].yes_to, N) THEN <<YesArrow(k)>> ELSE <<>>)
         \o (IF Valid(steps[k + 1].no_to, N) THEN <<NoArrow(k)>> ELSE <<>>)
    ELSE (IF Valid(steps[k + 1].next, N) THEN <<NextArrow(k)>> ELSE <<>>)

\* C1: in create_flowchart a successor index that is missing or outside
\* 0..n-1 (past the end or negative) produces no edge and raises no error;
\* all n nodes and every edge with a valid index are still produced.
C1_SilentSkip ==
    Flow =>
        /\ pc # "error"
        /\ Placed => Len(nodes) = N
        /\ \A k \in 0..(N - 1) : Connected(k) => ArrowsBy(k) = EdgesOfValid(k)

\* C3 as stated: a step is at the horizontal centre unless branch is left
\* or right, which moves it by the fixed distance 2 to that side.
C3_LeftRightOffset ==
    Flow =>
        \A k \in 1..Len(nodes) :
            LET b == steps[k].branch
                x == nodes[k].center[1]
            IN  /\ b = "left" => x = RSub(canvas.x_center, RInt(2))
                /\ b = "right" => x = RAdd(canvas.x_center, RInt(2))
                /\ b \notin {"left", "right"} => x = canvas.x_center

\* C3 amended: a step is at the horizontal centre (x = 5) unless branch is
\* yes (2 to the left) or no (2 to the right); no other branch value, left
\* and right included, changes the horizontal position.
C3_YesNoOffset ==
    Flow =>
        \A k \in 1..Len(nodes) :
            LET b == steps[k].branch
                x == nodes[k].center[1]
            IN  /\ b = "yes" => x = RInt(3)
                /\ b = "no" => x = RInt(7)
                /\ b \notin {"yes", "no"} => x = RInt(5)

C3_Witness ==
    /\ Flow /\ pc = "done"
    /\ \E k \in 1..Len(nodes) :
          steps[k].branch = "yes" /\ nodes[k].center[1] = RInt(3)

\* C5: N steps give exactly N node anchors, one per step in input order
\* (node k has the shape of step k); the vertical centre strictly decreases
\* with the step index, adjacent steps differing by exactly
\* (canvas_height - 2) / (N + 1) with canvas_height = max(14, 2.5 N).
C5_NodesEvenlySpaced ==
    Flow =>
        /\ pc = "fc_nodes" => Len(nodes) = i
        /\ Placed =>
              /\ Len(nodes) = N
              /\ \A k \in 1..N :
                    nodes[k] = DrawShape(steps[k].type, nodes[k].center[1],
                                         nodes[k].center[2])
              /\ \A k \in 1..(N - 1) :
                    /\ RLt(nodes[k + 1].center[2], nodes[k].center[2])
                    /\ RSub(nodes[k].center[2], nodes[k + 1].center[2])
                         = RDiv(RSub(RMax(RInt(14), R(5 * N, 2)), RInt(2)),
                                RInt(N + 1))

\* a finished flow long enough for the canvas to grow beyond 14
C5_Witness ==
    /\ Flow /\ pc = "done" /\ N >= 6
    /\ canvas.height # RInt(14)
    /\ Len(nodes) = N

\* C6: a decision step whose yes_to and no_to are both valid produces exactly
\* two edges: left anchor -> top of node yes_to labelled "Yes", then right
\* anchor -> top of node no_to labelled "No", both curved; its next field
\* produces no edge.
C6_DecisionEdges ==
    \A k \in 0..(N - 1) :
        (/\ Connected(k)
         /\ steps[k + 1].type = "decision"
         /\ Valid(steps[k + 1].yes_to, N)
         /\ Valid(steps[k + 1].no_to, N))
        => ArrowsBy(k) = <<YesArrow(k), NoArrow(k)>>

\* a connected decision step with distinct valid branches and a valid next
C6_Witness ==
    \E k \in 0..(N - 1) :
        /\ Connected(k)
        /\ steps[k + 1].type = "decision"
        /\ Valid(steps[k + 1].yes_to, N)
        /\ Valid(steps[k + 1].no_to, N)
        /\ steps[k + 1].yes_to # steps[k + 1].no_to
        /\ Valid(steps[k + 1].next, N)
        /\ Len(ArrowsBy(k)) = 2

\* C7: a step that is not a decision and whose next is valid produces exactly
\* one edge, bottom anchor -> top of node next, straight and unlabelled; its
\* yes_to and no_to fields produce no edge.
C7_NextEdge ==
    \A k \in 0..(N - 1) :
        (/\ Connected(k)
         /\ steps[k + 1].type # "decision"
         /\ Valid(steps[k + 1].next, N))
        => ArrowsBy(k) = <<NextArrow(k)>>

\* a connected non-decision step with valid next, yes_to and no_to
C7_Witness ==
    \E k \in 0..(N - 1) :
        /\ Connected(k)
        /\ steps[k + 1].type # "decision"
        /\ Valid(steps[k + 1].next, N)
        /\ Valid(steps[k + 1].yes_to, N)
        /\ Valid(steps[k + 1].no_to, N)
        /\ Len(ArrowsBy(k)) = 1

\* ----------------------------------------------------- mind-map helpers
Mind == fn = "create_mindmap"
NB == Len(data)
\* radial_layout has returned
Laid == Mind /\ pc \in {"mm_branches", "done"}
\* the branch loop has finished the iteration of branch k (0-based)
Drawn(k) == Laid /\ k < i
\* two angles in degrees that differ by whole turns
SameDirection(a, b) ==
    LET diff == RSub(a, b) IN diff.d = 1 /\ diff.n % 360 = 0
CenterWidth == R(7, 2)
BranchWidth == R(14, 5)
ChildWidth == R(11, 5)
\* the boxes of the children of branch k, in drawing order
ChildNodesOf(k) ==
    SelectSeq(mnodes, LAMBDA nd :
        nd.width = ChildWidth /\ nd.pos.angle = branch_positions[k + 1].angle)
\* the box of branch k
BranchNodesOf(k) ==
    SelectSeq(mnodes, LAMBDA nd :
        nd.width = BranchWidth /\ nd.pos = branch_positions[k + 1])
Palette == <<"#3498DB", "#2ECC71", "#F39C12", "#9B59B6", "#1ABC9C">>
\* the color a branch is to have
ColorOf(k) ==
    IF data[k + 1].color # NoColor THEN data[k + 1].color
    ELSE Palette[(k % 5) + 1]
RECURSIVE TotalChildren(_)
TotalChildren(k) ==
    IF k = 0 THEN 0 ELSE Len(data[k].children) + TotalChildren(k - 1)
Count(seq, Test(_)) == Len(SelectSeq(seq, Test))

\* C2 as stated: with n >= 1 branches, branch k lies in the direction
\* 90 - k * (360 / n) degrees (clockwise from the top).
C2_Clockwise ==
    Laid =>
        \A k \in 0..(NB - 1) :
            SameDirection(branch_positions[k + 1].angle,
                          RSub(RInt(90), R(360 * k, NB)))

\* C2 amended: with n >= 1 branches, branch k is placed on the circle of
\* radius branch_radius about the canvas centre at angle 90 + k * (360 / n)
\* degrees: the first branch at the top, the following ones counter-clockwise
\* in equal steps of 360 / n; for n = 5 the angles are 90, 162, 234, 306, 378.
C2_CounterClockwise ==
    Laid =>
        /\ Len(branch_positions) = NB
        /\ \A k \in 0..(NB - 1) :
              LET p == branch_positions[k + 1]
              IN  /\ p.angle = R(90 * NB + 360 * k, NB)
                  /\ p.radius = canvas.branch_radius
                  /\ <<p.cx, p.cy>> = canvas.center
                  /\ p.along = RInt(0) /\ p.across = RInt(0)
        /\ NB = 5 =>
              [k \in 1..5 |-> branch_positions[k].angle]
                 = <<RInt(90), RInt(162), RInt(234), RInt(306), RInt(378)>>

C2_Witness ==
    /\ Laid /\ NB = 5
    /\ branch_positions[2].angle = RInt(162)
    /\ ~SameDirection(branch_positions[2].angle, RInt(18))

\* C4: empty input degrades silently: create_mindmap with zero branches and
\* create_flowchart with an empty step sequence run to completion without an
\* error and produce no branch/step nodes and no edges.
C4_EmptyInputSilent ==
    /\ (Flow /\ N = 0) =>
          /\ pc # "error"
          /\ nodes = <<>> /\ arrows = <<>>
    /\ (Mind /\ NB = 0) =>
          /\ pc # "error"
          /\ Len(mnodes) <= 1 /\ connectors = <<>>

\* C8: for a drawn branch with m >= 1 children the children lie at distance
\* 2 outward from the branch and their perpendicular offsets are symmetric:
\* offset[j] = -offset[m-1-j], adjacent offsets differ by the spacing 1.2, a
\* single child has offset 0, and of 3 children the middle one has offset 0.
C8_ChildOffsetsSymmetric ==
    \A k \in 0..(NB - 1) :
        Drawn(k) =>
            LET cs == ChildNodesOf(k)
                m == Len(data[k + 1].children)
                off(j) == cs[j + 1].pos.across
            IN  /\ Len(cs) = m
                /\ \A j \in 0..(m - 1) :
                      /\ cs[j + 1].pos.along = RInt(2)
                      /\ cs[j + 1].pos.radius = branch_positions[k + 1].radius
                      /\ off(j) = RNeg(off(m - 1 - j))
                /\ \A j \in 0..(m - 2) : RSub(off(j + 1), off(j)) = R(6, 5)
                /\ m = 1 => off(0) = RInt(0)
                /\ m = 3 => off(1) = RInt(0) /\ off(0) = RNeg(off(2))

\* drawn branches with 1, 2 and 3 children
C8_Witness ==
    /\ Mind /\ pc = "done"
    /\ \E k \in 0..(NB - 1) :
          /\ Len(ChildNodesOf(k)) = 1
          /\ ChildNodesOf(k)[1].pos.across = RInt(0)
    /\ \E k \in 0..(NB - 1) :
          /\ Len(ChildNodesOf(k)) = 2
          /\ ChildNodesOf(k)[1].pos.across = R(-3, 5)
    /\ \E k \in 0..(NB - 1) :
          /\ Len(ChildNodesOf(k)) = 3
          /\ ChildNodesOf(k)[1].pos.across = R(-6, 5)
          /\ ChildNodesOf(k)[3].pos.across = R(6, 5)

\* C9: the color of branch k is its declared color when it declares one and
\* otherwise entry k mod 5 of the palette branch1..branch5; the lookup never
\* fails, whatever the number of branches.
C9_BranchColor ==
    /\ (Mind /\ NB >= 1) => pc # "error"
    /\ \A k \in 0..(NB - 1) :
          Drawn(k) =>
              /\ Len(BranchNodesOf(k)) = 1
              /\ BranchNodesOf(k)[1].color = ColorOf(k)

\* more than 5 branches: the sixth takes the first palette entry, and some
\* branch shows its declared color
C9_Witness ==
    /\ Mind /\ pc = "done" /\ NB >= 6
    /\ data[6].color = NoColor
    /\ BranchNodesOf(5)[1].color = "#3498DB"
    /\ \E k \in 0..(NB - 1) :
          data[k + 1].color = "#E74C3C" /\ BranchNodesOf(k)[1].color = "#E74C3C"

\* C10: a finished mind map with n >= 1 branches has exactly one center box,
\* n branch boxes and one box per child, and exactly n + (number of
\* children) connectors: for each branch one from the center to it and one
\* from it to each of its own children, all in that branch's color; no
\* connector joins a child to the center or to another branch.
C10_NodesAndConnectors ==
    (Mind /\ pc = "done" /\ NB >= 1) =>
        /\ Count(mnodes, LAMBDA nd : nd.width = CenterWidth) = 1
        /\ Count(mnodes, LAMBDA nd : nd.width = BranchWidth) = NB
        /\ Count(mnodes, LAMBDA nd : nd.width = ChildWidth) = TotalChildren(NB)
        /\ Len(mnodes) = 1 + NB + TotalChildren(NB)
        /\ Len(connectors) = NB + TotalChildren(NB)
        /\ \A k \in 0..(NB - 1) :
              LET bp == branch_positions[k + 1]
                  cs == ChildNodesOf(k)
              IN  /\ Count(connectors, LAMBDA c : c.end = bp) = 1
                  /\ Count(connectors, LAMBDA c :
                        /\ c.start = CenterPoint(canvas.center)
                        /\ c.end = bp
                        /\ c.color = ColorOf(k)) = 1
                  /\ Len(cs) = Len(data[k + 1].children)
                  /\ \A j \in 1..Len(cs) :
                        /\ Count(connectors, LAMBDA c : c.end = cs[j].pos) = 1
                        /\ Count(connectors, LAMBDA c :
                              /\ c.start = bp
                              /\ c.end = cs[j].pos
                              /\ c.color = ColorOf(k)) = 1

C10_Witness ==
    /\ Mind /\ pc = "done" /\ NB >= 3
    /\ TotalChildren(NB) >= 4
    /\ Len(connectors) = NB + TotalChildren(NB)

\* C11: the mind-map canvas scales with the content: width = max(16, 3 n)
\* and height = max(12, 4 + 1.5 * (largest number of children of a branch)),
\* so width >= 16 and height >= 12; the branch radius min(width, height) / 3
\* is strictly smaller than half the width and half the height, and the
\* canvas centre is the middle of the canvas.
C11_CanvasScales ==
    (Mind /\ pc # "mm_layout") =>
        LET mc == IF NB = 0 THEN 0
                  ELSE MaxOf({Len(data[k].children) : k \in 1..NB})
            w3 == IF 3 * NB > 16 THEN 3 * NB ELSE 16
            h2 == IF 8 + 3 * mc > 24 THEN 8 + 3 * mc ELSE 24
        IN  /\ canvas.width = RInt(w3)
            /\ canvas.height = R(h2, 2)
            /\ ~RLt(canvas.width, RInt(16))
            /\ ~RLt(canvas.height, RInt(12))
            /\ canvas.branch_radius = RDiv(RMin(canvas.width, canvas.height), RInt(3))
            /\ RLt(canvas.branch_radius, RDiv(canvas.width, RInt(2)))
            /\ RLt(canvas.branch_radius, RDiv(canvas.height, RInt(2)))
            /\ canvas.center = <<RDiv(canvas.width, RInt(2)), RDiv(canvas.height, RInt(2))>>
            /\ \A k \in 1..Len(branch_positions) :
                  branch_positions[k].radius = canvas.branch_radius

\* a laid-out mind map whose width and height both exceed their minimum
C11_Witness ==
    /\ Laid
    /\ canvas.width = RInt(18)
    /\ canvas.height = RInt(13)
    /\ canvas.branch_radius = R(13, 3)

\* ------------------------------------------------------- linear helpers
Linear == fn = "create_linear_flowchart"
NI == Len(items)
\* the items handled so far
ItemsDone == IF pc = "lf_layout" THEN 0 ELSE i

\* C12: create_linear_flowchart on N items produces exactly N nodes in input
\* order, node k (0-based) centred at x = 4, y = (2N + 2) - 2 - 2k, and
\* exactly max(N - 1, 0) edges: for every k >= 1 one straight unlabelled edge
\* from the bottom of node k-1 to the top of node k, and nothing else (a
\* decision item gets no Yes/No edges).
C12_LinearChain ==
    Linear =>
        /\ pc # "error"
        /\ pc = "done" => ItemsDone = NI
        /\ Len(nodes) = ItemsDone
        /\ \A k \in 0..(ItemsDone - 1) :
              /\ nodes[k + 1].center = <<RInt(4), RInt((2 * NI + 2) - 2 - 2 * k)>>
              /\ nodes[k + 1] = LinearShape(items[k + 1][1], RInt(4),
                                            nodes[k + 1].center[2])
        /\ Len(arrows) = (IF ItemsDone >= 1 THEN ItemsDone - 1 ELSE 0)
        /\ \A k \in 1..(ItemsDone - 1) :
              /\ arrows[k].start = nodes[k].bottom
              /\ arrows[k].end = nodes[k + 1].top
              /\ arrows[k].label = ""
              /\ arrows[k].curved = FALSE

\* a finished chain of at least 3 items with a decision that is not last
C12_Witness ==
    /\ Linear /\ pc = "done" /\ NI >= 3
    /\ \E k \in 1..(NI - 1) : items[k][1] = "decision"
    /\ Len(nodes) = NI
    /\ Len(arrows) = NI - 1

\* --------------------------------------------------------- tree helpers
Tree == fn = "tree_layout"
Returned == Tree /\ pc = "done"

\* C13: tree_layout(parent_pos, count) returns exactly count positions (none
\* for count = 0), all at y = parent y + offset_y, adjacent ones exactly
\* spread apart and the row centred on the parent's x; for count = 1 the
\* special case returns what the general formula gives.
C13_TreeRow ==
    Returned =>
        LET ps == tree.positions
            c == tree.count
            px == tree.parent_pos[1]
            py == tree.parent_pos[2]
        IN  /\ Len(ps) = c
            /\ \A k \in 1..c : ps[k][2] = RAdd(py, tree.offset_y)
            /\ \A k \in 1..(c - 1) : RSub(ps[k + 1][1], ps[k][1]) = tree.spread
            /\ \A k \in 1..c :
                  RAdd(ps[k][1], ps[c + 1 - k][1]) = RMul(RInt(2), px)
            /\ c = 1 =>
                  ps = <<<<RAdd(RSub(px, RDiv(RMul(tree.spread, RInt(1 - 1)), RInt(2))),
                                RMul(RInt(0), tree.spread)),
                           RAdd(py, tree.offset_y)>>>>

\* a returned row of three with the default spread and offset
C13_Witness ==
    /\ Returned
    /\ tree.count = 3 /\ tree.spread = R(5, 2) /\ tree.offset_y = RInt(-2)
    /\ tree.parent_pos = <<RInt(8), RInt(6)>>
    /\ tree.positions = <<<<R(11, 2), RInt(4)>>, <<RInt(8), RInt(4)>>,
                          <<R(21, 2), RInt(4)>>>>

\* C14: with the default shape sizes, for N >= 2 steps of any kinds,
\* vertically adjacent nodes never overlap: the bottom anchor of step k is
\* strictly above the top anchor of step k+1, the spacing
\* (max(14, 2.5 N) - 2) / (N + 1) exceeding 1.8, the largest sum of two
\* half-heights (two diamonds); and every node centre lies strictly between
\* y = 1 and y = canvas_height - 1.
C14_NoVerticalOverlap ==
    (Placed /\ N >= 2) =>
        LET h == RMax(RInt(14), R(5 * N, 2))
            spacing == RDiv(RSub(h, RInt(2)), RInt(N + 1))
        IN  /\ RLt(R(9, 5), spacing)
            /\ \A k \in 1..(N - 1) :
                  /\ RLt(nodes[k + 1].top[2], nodes[k].bottom[2])
                  /\ RSub(nodes[k].center[2], nodes[k + 1].center[2]) = spacing
                  /\ ~RLt(R(9, 5),
                          RAdd(RSub(nodes[k].center[2], nodes[k].bottom[2]),
                               RSub(nodes[k + 1].top[2], nodes[k + 1].center[2])))
            /\ \A k \in 1..N :
                  /\ RLt(RInt(1), nodes[k].center[2])
                  /\ RLt(nodes[k].center[2], RSub(h, RInt(1)))

\* two diamonds as neighbours in a flow of six steps, where the spacing is
\* smallest (13/7)
C14_Witness ==
    /\ Placed /\ N = 6
    /\ canvas.y_spacing = R(13, 7)
    /\ \E k \in 1..(N - 1) :
          /\ steps[k].type = "decision" /\ steps[k + 1].type = "decision"
          /\ RSub(nodes[k].bottom[2], nodes[k + 1].top[2]) = RSub(R(13, 7), R(9, 5))

====
